---- MODULE Spec2Model ----
(***************************************************************************)
(* Model of bike_sharing_dashboard.py: a Streamlit script that is          *)
(* re-executed top to bottom on every UI interaction.  The state is the    *)
(* source file, the st.cache_data store, the session state, the widget     *)
(* values and the position and local variables of the running script.      *)
(* Each section of the script is one step; an exception raised by a step   *)
(* ends the run (the script has no try/except).                            *)
(***************************************************************************)
EXTENDS Integers, Sequences, FiniteSets, TLC

VARIABLES
    file,               \* contents of data/Bike_sharing_market_research.xlsx
    cache,              \* st.cache_data store of load_data: <<>> or <<table>>
    load_data_runs,     \* how often the body of load_data has executed
    session_state,      \* st.session_state: function from keys to values
    registered,         \* widget keys that already hold a value
    year_filter, season_filter, weather_filter, env_factor,   \* widget values
    clicked,            \* the dataset_toggle button triggered this run
    pc,                 \* section of the script about to execute, or "idle"
    exception,          \* exception that ended the run, or "none"
    rendered,           \* sections whose output was emitted in this run
    data, filtered_data,
    metrics,            \* sum, mean, max_date, pct_change of Key Metrics
    moving_avg_total,
    total_rental_per_weekday, weather_situation_total,
    total_rentals_weekday_weather, season_weather_rentals,
    trend_line,
    button_text, table_shown

ui     == <<session_state, registered, year_filter, season_filter,
            weather_filter, env_factor, clicked>>
locals == <<data, filtered_data, metrics, moving_avg_total,
            total_rental_per_weekday, weather_situation_total,
            total_rentals_weekday_weather, season_weather_rentals,
            trend_line, button_text, table_shown>>
vars   == <<file, cache, load_data_runs, ui, pc, exception, rendered, locals>>

(***************************************************************************)
(* Bounds of the model.                                                    *)
(***************************************************************************)
MaxRows == 11       \* rows of the source file: 7 .. MaxRows

(***************************************************************************)
(* Program constants.                                                      *)
(***************************************************************************)
Window     == 10    \* rolling(window=10)
Degree     == 2     \* polynomial_regression_predict(..., degree=2)
NumPoints  == 200   \* num_points=200
Y1         == 2011
Y2         == 2012

day_order == <<"Sun", "Mon", "Tue", "Wed", "Thu", "Fri", "Sat">>

HideLabel == "Hide Dataset"
ShowLabel == "Show Complete Dataset"

(***************************************************************************)
(* Floating point results: a rational, NaN or +infinity.                   *)
(***************************************************************************)
NaN       == [kind |-> "nan", num |-> 0, den |-> 1]
Inf       == [kind |-> "inf", num |-> 0, den |-> 1]
Num(a, b) == [kind |-> "num", num |-> a, den |-> b]
Whole(a)  == Num(a, 1)

\* a / b for numpy scalars: division by zero yields inf or nan with a
\* RuntimeWarning, never an exception.  Operands here are integers, a >= 0
\* whenever b = 0.
TrueDivide(a, b) ==
    IF b # 0 THEN Num(a, b)
    ELSE IF a = 0 THEN NaN ELSE Inf

Times(x, k) == IF x.kind = "num" THEN Num(x.num * k, x.den) ELSE x

(***************************************************************************)
(* Sequences and series.                                                   *)
(***************************************************************************)
RECURSIVE SumSeq(_)
SumSeq(s) == IF s = <<>> THEN 0 ELSE Head(s) + SumSeq(Tail(s))

Column(df, col) == [i \in 1..Len(df) |-> df[i][col]]
Unique(df, col) == {df[i][col] : i \in 1..Len(df)}

\* df[df[col].isin(values)]
IsinRows(df, col, values) == SelectSeq(df, LAMBDA r : r[col] \in values)
\* df[df[col] == v]
EqRows(df, col, v) == SelectSeq(df, LAMBDA r : r[col] = v)

Min(S) == CHOOSE x \in S : \A y \in S : x <= y
Max(S) == CHOOSE x \in S : \A y \in S : y <= x

(***************************************************************************)
(* pandas and numpy operations used by the script.  An operation that can  *)
(* raise returns [raised |-> <exception or "none">, value |-> ...].        *)
(***************************************************************************)
Ok(v)      == [raised |-> "none", value |-> v]
Raise(e)   == [raised |-> e, value |-> <<>>]

\* Series.sum(): 0 on an empty series
SeriesSum(s) == SumSeq(s)

\* Series.mean(): NaN on an empty series
SeriesMean(s) == IF Len(s) = 0 THEN NaN ELSE Num(SumSeq(s), Len(s))

\* Series.idxmax(): label (here the date) of the first row holding the
\* maximum; ValueError on an empty series
IdxMax(df, col) ==
    IF Len(df) = 0 THEN Raise("ValueError")
    ELSE LET m == Max({df[i][col] : i \in 1..Len(df)})
             p == Min({i \in 1..Len(df) : df[i][col] = m})
         IN  Ok(df[p].date)

\* rolling mean that averages partial windows (min_periods=1)
RollingMeanPartial(s, w) ==
    [i \in 1..Len(s) |->
        IF i < w THEN Num(SumSeq(SubSeq(s, 1, i)), i)
        ELSE Num(SumSeq(SubSeq(s, i - w + 1, i)), w)]

\* Series.rolling(window=w).mean(): min_periods defaults to the window, so
\* the first w-1 positions are NaN; positions are those of the series given
RollingMean(s, w) ==
    [i \in 1..Len(s) |->
        IF i < w THEN NaN ELSE Num(SumSeq(SubSeq(s, i - w + 1, i)), w)]

\* df.groupby(key)[col].sum(): one entry per key present in df
GroupBySum(df, key, col) ==
    [k \in Unique(df, key) |-> SumSeq(Column(EqRows(df, key, k), col))]

\* reordering that keeps only the labels the frame has
ReindexPresent(series, order) ==
    LET present == SelectSeq(order, LAMBDA d : d \in DOMAIN series)
    IN  [i \in 1..Len(present) |->
            [label |-> present[i], value |-> Whole(series[present[i]])]]

\* frame.reindex(order): a row per label of order, NaN where the label is
\* not in the frame
Reindex(series, order) ==
    [i \in 1..Len(order) |->
        [label |-> order[i],
         value |-> IF order[i] \in DOMAIN series
                   THEN Whole(series[order[i]]) ELSE NaN]]

\* pd.pivot_table(df, values=col, index=index, columns=columns,
\* aggfunc='sum'): a row per index value present, a column per column value
\* present, NaN where the combination has no rows
PivotTable(df, col, index, columns) ==
    [r \in Unique(df, index) |->
        [c \in Unique(df, columns) |->
            LET rows == SelectSeq(df, LAMBDA x : x[index] = r /\ x[columns] = c)
            IN  IF Len(rows) = 0 THEN NaN
                ELSE Whole(SumSeq(Column(rows, col)))]]

\* frame.loc[order]: KeyError when a label of order is not in the frame
Loc(frame, order) ==
    IF \E i \in 1..Len(order) : order[i] \notin DOMAIN frame
    THEN Raise("KeyError")
    ELSE Ok([i \in 1..Len(order) |->
                [label |-> order[i], cells |-> frame[order[i]]]])

\* np.polyfit(x, y, deg): TypeError on an empty x or on unequal lengths;
\* otherwise a least-squares solution, with a RankWarning (a warning, not
\* an exception) when the Vandermonde matrix has rank below deg + 1, that
\* is when x has fewer than deg + 1 distinct values
PolyFit(x, y, deg) ==
    LET distinct == Cardinality({x[i] : i \in 1..Len(x)})
        rank     == IF distinct < deg + 1 THEN distinct ELSE deg + 1
    IN  IF Len(x) = 0 \/ Len(x) # Len(y) THEN Raise("TypeError")
        ELSE Ok([rank |-> rank, rank_warning |-> rank # deg + 1])

\* np.linspace(lo, hi, n): n points, the first lo and the last hi
Linspace(lo, hi, n) == [first |-> lo, last |-> hi, len |-> n]

polynomial_regression_predict(x, y, degree, num_points) ==
    LET coeffs == PolyFit(x, y, degree)
        xs     == {x[i] : i \in 1..Len(x)}
    IN  IF coeffs.raised # "none" THEN coeffs
        ELSE Ok([x_range |-> Linspace(Min(xs), Max(xs), num_points),
                 y_pred  |-> [len |-> num_points],
                 fit     |-> coeffs.value])

(***************************************************************************)
(* The source file: one row per consecutive day, in date order.  The      *)
(* weekday, season and readings follow from the date; the days up to      *)
(* split belong to 2011 and the later ones to 2012; the days in bad have  *)
(* bad weather.                                                           *)
(***************************************************************************)
Row(i, split, bad) ==
    [date        |-> i,
     year        |-> IF i <= split THEN Y1 ELSE Y2,
     season      |-> IF i % 3 = 0 THEN "summer" ELSE "spring",
     weekday     |-> day_order[((i - 1) % 7) + 1],
     weather     |-> IF i \in bad THEN "bad" ELSE "good",
     temperature |-> i,
     humidity    |-> (i - 1) \div 4,
     total       |-> i]

Table(n, split, bad) == [i \in 1..n |-> Row(i, split, bad)]

\* 7 .. MaxRows days; the year changes before the first day, after day
\* MaxRows - 7 or not at all; at most one day of bad weather
Files ==
    {Table(n, split, bad) :
        n \in Len(day_order)..MaxRows,
        split \in {0, MaxRows - Len(day_order), MaxRows},
        bad \in {{}} \cup {{q} : q \in 1..MaxRows}}

(***************************************************************************)
(* load_data under @st.cache_data: the body runs on a cache miss and its   *)
(* result is stored; a hit returns the stored table.                       *)
(***************************************************************************)
\* a store that never answers
CacheMiss(store) == FALSE

CacheHit(store) == Len(store) > 0

\* pd.read_excel and pd.to_datetime: the table as the file holds it
load_data(f) == f

(***************************************************************************)
(* The filter block: each selection is applied only when it is non-empty.  *)
(***************************************************************************)
\* filtering without the emptiness tests
ApplyFiltersAlways(df, years, seasons, weathers) ==
    IsinRows(IsinRows(IsinRows(df, "year", years), "season", seasons),
             "weather", weathers)

ApplyFilters(df, years, seasons, weathers) ==
    LET f1 == IF years # {} THEN IsinRows(df, "year", years) ELSE df
        f2 == IF seasons # {} THEN IsinRows(f1, "season", seasons) ELSE f1
        f3 == IF weathers # {} THEN IsinRows(f2, "weather", weathers) ELSE f2
    IN  f3

\* the year-over-year change of the Key Metrics block
PctChange(df) ==
    LET s2 == SeriesSum(Column(EqRows(df, "year", Y2), "total"))
        s1 == SeriesSum(Column(EqRows(df, "year", Y1), "total"))
    IN  Times(TrueDivide(s2 - s1, s1), 100)

(***************************************************************************)
(* Values of the script's variables before they are assigned.              *)
(***************************************************************************)
NoMetrics == [sum |-> 0, mean |-> NaN, max_date |-> 0, pct_change |-> NaN]
NoTrend   == [x_range |-> Linspace(0, 0, 0), y_pred |-> [len |-> 0],
              fit |-> [rank |-> 0, rank_warning |-> FALSE]]

FreshLocals ==
    /\ data' = <<>>
    /\ filtered_data' = <<>>
    /\ metrics' = NoMetrics
    /\ moving_avg_total' = <<>>
    /\ total_rental_per_weekday' = <<>>
    /\ weather_situation_total' = <<>>
    /\ total_rentals_weekday_weather' = <<>>
    /\ season_weather_rentals' = <<>>
    /\ trend_line' = NoTrend
    /\ button_text' = ""
    /\ table_shown' = FALSE

Init ==
    /\ file \in Files
    /\ cache = <<>>
    /\ load_data_runs = 0
    /\ session_state = <<>>
    /\ registered = {}
    /\ year_filter = {}
    /\ season_filter = {}
    /\ weather_filter = {}
    /\ env_factor = "Temperature"
    /\ clicked = FALSE
    /\ pc = "load"
    /\ exception = "none"
    /\ rendered = {}
    /\ data = <<>>
    /\ filtered_data = <<>>
    /\ metrics = NoMetrics
    /\ moving_avg_total = <<>>
    /\ total_rental_per_weekday = <<>>
    /\ weather_situation_total = <<>>
    /\ total_rentals_weekday_weather = <<>>
    /\ season_weather_rentals = <<>>
    /\ trend_line = NoTrend
    /\ button_text = ""
    /\ table_shown = FALSE

(***************************************************************************)
(* The script, section by section.                                         *)
(***************************************************************************)
\* an uncaught exception ends the run; the button trigger is consumed
Abort(e) ==
    /\ exception' = e
    /\ pc' = "idle"
    /\ clicked' = FALSE

LoadData ==
    /\ pc = "load"
    /\ IF CacheHit(cache)
       THEN /\ data' = cache[1]
            /\ UNCHANGED <<cache, load_data_runs>>
       ELSE /\ data' = load_data(file)
            /\ cache' = <<load_data(file)>>
            /\ load_data_runs' = load_data_runs + 1
    /\ pc' = "sidebar"
    /\ UNCHANGED <<file, ui, exception, rendered, filtered_data, metrics,
                   moving_avg_total, total_rental_per_weekday,
                   weather_situation_total, total_rentals_weekday_weather,
                   season_weather_rentals, trend_line, button_text,
                   table_shown>>

\* the three multiselects: a widget without a value yet takes its default,
\* every option
SidebarFilters ==
    /\ pc = "sidebar"
    /\ year_filter' = IF "year" \in registered THEN year_filter
                      ELSE Unique(data, "year")
    /\ season_filter' = IF "season" \in registered THEN season_filter
                        ELSE Unique(data, "season")
    /\ weather_filter' = IF "weather" \in registered THEN weather_filter
                         ELSE Unique(data, "weather")
    /\ registered' = registered \cup {"year", "season", "weather"}
    /\ rendered' = rendered \cup {"Filters"}
    /\ pc' = "filter"
    /\ UNCHANGED <<file, cache, load_data_runs, session_state, env_factor,
                   clicked, exception, locals>>

FilterData ==
    /\ pc = "filter"
    /\ filtered_data' =
           ApplyFilters(data, year_filter, season_filter, weather_filter)
    /\ pc' = "metrics"
    /\ UNCHANGED <<file, cache, load_data_runs, ui, exception, rendered, data,
                   metrics, moving_avg_total, total_rental_per_weekday,
                   weather_situation_total, total_rentals_weekday_weather,
                   season_weather_rentals, trend_line, button_text,
                   table_shown>>

KeyMetrics ==
    /\ pc = "metrics"
    /\ LET tot  == Column(filtered_data, "total")
           peak == IdxMax(filtered_data, "total")
       IN  IF peak.raised # "none"
           THEN /\ metrics' = [NoMetrics EXCEPT !.sum = SeriesSum(tot),
                                                !.mean = SeriesMean(tot)]
                /\ rendered' = rendered \cup
                       {"Total Rentals", "Average Daily Rentals"}
                /\ Abort(peak.raised)
           ELSE /\ metrics' = [sum        |-> SeriesSum(tot),
                               mean       |-> SeriesMean(tot),
                               max_date   |-> peak.value,
                               pct_change |-> PctChange(filtered_data)]
                /\ rendered' = rendered \cup
                       {"Total Rentals", "Average Daily Rentals",
                        "Peak Rental Day", "Yearly Growth"}
                /\ pc' = "timeseries"
                /\ UNCHANGED <<exception, clicked>>
    /\ UNCHANGED <<file, cache, load_data_runs, session_state, registered,
                   year_filter, season_filter, weather_filter, env_factor,
                   data, filtered_data, moving_avg_total,
                   total_rental_per_weekday, weather_situation_total,
                   total_rentals_weekday_weather, season_weather_rentals,
                   trend_line, button_text, table_shown>>

TimeSeries ==
    /\ pc = "timeseries"
    /\ moving_avg_total' = RollingMean(Column(filtered_data, "total"), Window)
    /\ rendered' = rendered \cup
           {"Moving Average", "User Segments", "Area Chart", "Total Rentals Over Time"}
    /\ pc' = "weekly"
    /\ UNCHANGED <<file, cache, load_data_runs, ui, exception, data,
                   filtered_data, metrics, total_rental_per_weekday,
                   weather_situation_total, total_rentals_weekday_weather,
                   season_weather_rentals, trend_line, button_text,
                   table_shown>>

WeeklyPatterns ==
    /\ pc = "weekly"
    /\ total_rental_per_weekday' =
           Reindex(GroupBySum(filtered_data, "weekday", "total"), day_order)
    /\ weather_situation_total' = GroupBySum(filtered_data, "weather", "total")
    /\ rendered' = rendered \cup {"Rentals by Weekday", "Rentals by Weather"}
    /\ pc' = "weather_seasonal"
    /\ UNCHANGED <<file, cache, load_data_runs, ui, exception, data,
                   filtered_data, metrics, moving_avg_total,
                   total_rentals_weekday_weather, season_weather_rentals,
                   trend_line, button_text, table_shown>>

WeatherSeasonal ==
    /\ pc = "weather_seasonal"
    /\ LET pivot == Loc(PivotTable(filtered_data, "total", "weekday", "weather"),
                        day_order)
       IN  IF pivot.raised # "none"
           THEN /\ Abort(pivot.raised)
                /\ UNCHANGED <<rendered, total_rentals_weekday_weather,
                               season_weather_rentals>>
           ELSE /\ total_rentals_weekday_weather' = pivot.value
                /\ season_weather_rentals' =
                       PivotTable(filtered_data, "total", "season", "weather")
                /\ rendered' = rendered \cup
                       {"Rentals by Weekday and Weather",
                        "Rentals by Season and Weather"}
                /\ pc' = "env"
                /\ UNCHANGED <<exception, clicked>>
    /\ UNCHANGED <<file, cache, load_data_runs, session_state, registered,
                   year_filter, season_filter, weather_filter, env_factor,
                   data, filtered_data, metrics, moving_avg_total,
                   total_rental_per_weekday, weather_situation_total,
                   trend_line, button_text, table_shown>>

EnvironmentalFactors ==
    /\ pc = "env"
    /\ LET xcol == IF env_factor = "Temperature" THEN "temperature"
                   ELSE "humidity"
           fit  == polynomial_regression_predict(
                       Column(filtered_data, xcol),
                       Column(filtered_data, "total"), Degree, NumPoints)
       IN  IF fit.raised # "none"
           THEN /\ rendered' = rendered \cup {"Environmental Factor"}
                /\ Abort(fit.raised)
                /\ UNCHANGED trend_line
           ELSE /\ trend_line' = fit.value
                /\ rendered' = rendered \cup
                       {"Environmental Factor", "Trend Line"}
                /\ pc' = "explorer"
                /\ UNCHANGED <<exception, clicked>>
    /\ UNCHANGED <<file, cache, load_data_runs, session_state, registered,
                   year_filter, season_filter, weather_filter, env_factor,
                   data, filtered_data, metrics, moving_avg_total,
                   total_rental_per_weekday, weather_situation_total,
                   total_rentals_weekday_weather, season_weather_rentals,
                   button_text, table_shown>>

DataExplorer ==
    /\ pc = "explorer"
    /\ LET init    == IF "show_dataset" \notin DOMAIN session_state
                      THEN session_state @@ ("show_dataset" :> FALSE)
                      ELSE session_state
           toggled == IF clicked
                      THEN [init EXCEPT !["show_dataset"] = ~@]
                      ELSE init
       IN  /\ button_text' = IF init["show_dataset"] THEN HideLabel
                             ELSE ShowLabel
           /\ session_state' = toggled
           /\ table_shown' = toggled["show_dataset"]
    /\ rendered' = rendered \cup {"Data Explorer"}
    /\ pc' = "footer"
    /\ UNCHANGED <<file, cache, load_data_runs, registered, year_filter,
                   season_filter, weather_filter, env_factor, clicked,
                   exception, data, filtered_data, metrics, moving_avg_total,
                   total_rental_per_weekday, weather_situation_total,
                   total_rentals_weekday_weather, season_weather_rentals,
                   trend_line>>

Footer ==
    /\ pc = "footer"
    /\ rendered' = rendered \cup {"Footer"}
    /\ pc' = "idle"
    /\ clicked' = FALSE
    /\ UNCHANGED <<file, cache, load_data_runs, session_state, registered,
                   year_filter, season_filter, weather_filter, env_factor,
                   exception, locals>>

(***************************************************************************)
(* UI interactions: each changes one widget shown by the last run and      *)
(* starts a new run of the script with fresh variables.                    *)
(***************************************************************************)
Rerun ==
    /\ pc' = "load"
    /\ exception' = "none"
    /\ rendered' = {}
    /\ FreshLocals

SelectYears ==
    /\ pc = "idle"
    /\ "Filters" \in rendered
    /\ \E sel \in SUBSET Unique(data, "year") :
           /\ sel # year_filter
           /\ year_filter' = sel
    /\ Rerun
    /\ UNCHANGED <<file, cache, load_data_runs, session_state, registered,
                   season_filter, weather_filter, env_factor, clicked>>

SelectSeasons ==
    /\ pc = "idle"
    /\ "Filters" \in rendered
    /\ \E sel \in SUBSET Unique(data, "season") :
           /\ sel # season_filter
           /\ season_filter' = sel
    /\ Rerun
    /\ UNCHANGED <<file, cache, load_data_runs, session_state, registered,
                   year_filter, weather_filter, env_factor, clicked>>

SelectWeather ==
    /\ pc = "idle"
    /\ "Filters" \in rendered
    /\ \E sel \in SUBSET Unique(data, "weather") :
           /\ sel # weather_filter
           /\ weather_filter' = sel
    /\ Rerun
    /\ UNCHANGED <<file, cache, load_data_runs, session_state, registered,
                   year_filter, season_filter, env_factor, clicked>>

SelectEnvFactor ==
    /\ pc = "idle"
    /\ "Environmental Factor" \in rendered
    /\ env_factor' = IF env_factor = "Temperature" THEN "Humidity"
                     ELSE "Temperature"
    /\ Rerun
    /\ UNCHANGED <<file, cache, load_data_runs, session_state, registered,
                   year_filter, season_filter, weather_filter, clicked>>

ClickToggle ==
    /\ pc = "idle"
    /\ "Data Explorer" \in rendered
    /\ clicked' = TRUE
    /\ Rerun
    /\ UNCHANGED <<file, cache, load_data_runs, session_state, registered,
                   year_filter, season_filter, weather_filter, env_factor>>

\* the source file is rewritten on disk while the process runs: its last
\* day is dropped or a further day is appended
EditFile ==
    /\ pc = "idle"
    /\ \E n \in {Len(file) - 1, Len(file) + 1} :
           /\ n \in Len(day_order)..MaxRows
           /\ file' = [i \in 1..n |->
                          IF i <= Len(file) THEN file[i]
                          ELSE Row(i, IF file[Len(file)].year = Y1
                                      THEN i ELSE 0, {})]
    /\ UNCHANGED <<cache, load_data_runs, ui, pc, exception, rendered, locals>>

Next ==
    \/ LoadData
    \/ SidebarFilters
    \/ FilterData
    \/ KeyMetrics
    \/ TimeSeries
    \/ WeeklyPatterns
    \/ WeatherSeasonal
    \/ EnvironmentalFactors
    \/ DataExplorer
    \/ Footer
    \/ SelectYears
    \/ SelectSeasons
    \/ SelectWeather
    \/ SelectEnvFactor
    \/ ClickToggle

Spec == Init /\ [][Next]_vars

\* the same dashboard while the source file is rewritten under it
InitEdit == Init /\ Unique(file, "weather") = {"good"}
NextEdit == Next \/ EditFile
SpecEdit == InitEdit /\ [][NextEdit]_vars

(***************************************************************************)
(* Properties.                                                             *)
(***************************************************************************)
Filtered == pc \notin {"load", "sidebar", "filter"}
Weekdays == {day_order[i] : i \in 1..Len(day_order)}
TotalOf(df) == SumSeq(Column(df, "total"))

\* C1: the active subset is exactly the records that pass every non-empty
\* selection, in dataset order; with all selections empty it is the dataset
FilterRetainsExactly ==
    Filtered =>
        /\ filtered_data =
               SelectSeq(data, LAMBDA r :
                   /\ (year_filter = {} \/ r.year \in year_filter)
                   /\ (season_filter = {} \/ r.season \in season_filter)
                   /\ (weather_filter = {} \/ r.weather \in weather_filter))
        /\ (year_filter = {} /\ season_filter = {} /\ weather_filter = {}
               => filtered_data = data)

FilterWitness ==
    /\ Filtered
    /\ year_filter = {}
    /\ weather_filter # {}
    /\ Len(filtered_data) > 0
    /\ Len(filtered_data) < Len(data)

\* C2: a run over an empty active subset completes every aggregation with a
\* "no data" result and raises nothing
EmptySubsetTolerated ==
    (pc = "idle" /\ Len(filtered_data) = 0) =>
        /\ exception = "none"
        /\ {"Total Rentals", "Average Daily Rentals", "Peak Rental Day",
            "Yearly Growth", "Moving Average", "Rentals by Weekday",
            "Rentals by Weather", "Rentals by Weekday and Weather",
            "Rentals by Season and Weather"} \subseteq rendered

\* C3: a failing computation is local to its chart: the sections after it,
\* the Data Explorer among them, are rendered in the same run
FailureIsLocal ==
    (pc = "idle" /\ exception # "none") =>
        {"Data Explorer", "Footer"} \subseteq rendered

\* C4: when the active 2011 total is zero the year-over-year change that
\* is computed is NaN, never infinity
ZeroBaseYearIsNaN ==
    ("Yearly Growth" \in rendered
        /\ TotalOf(EqRows(filtered_data, "year", Y1)) = 0) =>
        metrics.pct_change = NaN

\* C5: a degree 2 fit over fewer than 3 distinct x-values fails instead of
\* returning a grid and predictions
UnderdeterminedFitFails ==
    ("Environmental Factor" \in rendered
        /\ Cardinality(Unique(filtered_data,
               IF env_factor = "Temperature" THEN "temperature"
               ELSE "humidity")) < 3) =>
        /\ "Trend Line" \notin rendered
        /\ exception # "none"

\* C6: the moving average is undefined at the first 9 positions of the
\* active subset and the mean of the last 10 totals at every later one
MovingAverageWindow ==
    "Moving Average" \in rendered =>
        /\ Len(moving_avg_total) = Len(filtered_data)
        /\ \A i \in 0..(Len(filtered_data) - 1) :
               LET avg == moving_avg_total[i + 1]
               IN  IF i < 9 THEN avg = NaN
                   ELSE /\ avg.kind = "num"
                        /\ avg.num * 10 = avg.den *
                               SumSeq([j \in 1..10 |->
                                          filtered_data[i - 9 + j].total])

MovingAverageWitness ==
    /\ "Moving Average" \in rendered
    /\ Len(filtered_data) >= 10
    /\ Len(filtered_data) < Len(data)

\* C7: with a weekday missing from the active subset the weekday x weather
\* pivot is still produced, its rows in Sun..Sat order
PivotToleratesMissingWeekday ==
    (pc = "idle" /\ "Rentals by Weekday" \in rendered
        /\ Unique(filtered_data, "weekday") # Weekdays) =>
        /\ "Rentals by Weekday and Weather" \in rendered
        /\ Len(total_rentals_weekday_weather) = 7

\* C8: the reindexed weekday totals have exactly 7 entries in Sun..Sat
\* order, each present weekday holding the sum of its active totals
WeekdayTotalsShape ==
    "Rentals by Weekday" \in rendered =>
        /\ Len(total_rental_per_weekday) = 7
        /\ \A i \in 1..7 :
               /\ total_rental_per_weekday[i].label = day_order[i]
               /\ day_order[i] \in Unique(filtered_data, "weekday") =>
                      total_rental_per_weekday[i].value =
                          Whole(TotalOf(EqRows(filtered_data, "weekday",
                                               day_order[i])))

WeekdayTotalsWitness ==
    /\ "Rentals by Weekday" \in rendered
    /\ Unique(filtered_data, "weekday") # Weekdays
    /\ Unique(filtered_data, "weekday") # {}

\* C9: the body of load_data runs at most once; every call after it
\* returns the table materialized then, which never changes
LoadedOnce ==
    /\ [](load_data_runs <= 1)
    /\ [](pc # "load" /\ Len(cache) > 0 => data \in {<<>>, cache[1]})
    /\ [][Len(cache) > 0 => cache' = cache]_vars
    /\ [][pc = "load" /\ Len(cache) > 0 => data' = cache[1]]_vars

LoadedOnceWitness ==
    /\ pc = "sidebar"
    /\ load_data_runs = 1
    /\ Len(cache) > 0
    /\ file # cache[1]
    /\ data = cache[1]

\* C10: the toggle button reads "Hide Dataset" exactly when the table is
\* displayed in the same run
LabelMatchesTable ==
    "Data Explorer" \in rendered => (button_text = HideLabel <=> table_shown)
====
